---------------------------- MODULE Spec2Model ----------------------------
(***************************************************************************)
(* A model of src/app.py: the consultation dialog of AIMedicalAssistant,   *)
(* its cached generation call, and the PathologyReportAnalyzer pipeline    *)
(* behind the /chat and /upload handlers.                                  *)
(*                                                                         *)
(* A Python str is modelled as the sequence of its Unicode code points, so *)
(* that lower(), strip(), concatenation and the substring test `in` are    *)
(* computed, not assumed.  The text of every literal is given in the       *)
(* comment above its definition.                                           *)
(***************************************************************************)
EXTENDS Integers, Sequences, FiniteSets, TLC

(***************************************************************************)
(* Literals of the source.                                                 *)
(***************************************************************************)

\* Python's None: a value distinct from every str (no code point is negative).
None == << -1 >>

\* VALID_MEDICAL_TERMS, in the order of the source; [U+2019] is the right
\* single quotation mark, code point 8217.
VALID_MEDICAL_TERMS ==
    {
      \* "fever"
      <<102, 101, 118, 101, 114>>,
      \* "cough"
      <<99, 111, 117, 103, 104>>,
      \* "headache"
      <<104, 101, 97, 100, 97, 99, 104, 101>>,
      \* "diabetes"
      <<100, 105, 97, 98, 101, 116, 101, 115>>,
      \* "hypertension"
      <<104, 121, 112, 101, 114, 116, 101, 110, 115, 105, 111, 110>>,
      \* "asthma"
      <<97, 115, 116, 104, 109, 97>>,
      \* "flu"
      <<102, 108, 117>>,
      \* "cold"
      <<99, 111, 108, 100>>,
      \* "migraine"
      <<109, 105, 103, 114, 97, 105, 110, 101>>,
      \* "pneumonia"
      <<112, 110, 101, 117, 109, 111, 110, 105, 97>>,
      \* "covid-19"
      <<99, 111, 118, 105, 100, 45, 49, 57>>,
      \* "allergy"
      <<97, 108, 108, 101, 114, 103, 121>>,
      \* "infection"
      <<105, 110, 102, 101, 99, 116, 105, 111, 110>>,
      \* "bronchitis"
      <<98, 114, 111, 110, 99, 104, 105, 116, 105, 115>>,
      \* "arthritis"
      <<97, 114, 116, 104, 114, 105, 116, 105, 115>>,
      \* "anemia"
      <<97, 110, 101, 109, 105, 97>>,
      \* "cancer"
      <<99, 97, 110, 99, 101, 114>>,
      \* "depression"
      <<100, 101, 112, 114, 101, 115, 115, 105, 111, 110>>,
      \* "anxiety"
      <<97, 110, 120, 105, 101, 116, 121>>,
      \* "stroke"
      <<115, 116, 114, 111, 107, 101>>,
      \* "heart attack"
      <<104, 101, 97, 114, 116, 32, 97, 116, 116, 97, 99, 107>>,
      \* "obesity"
      <<111, 98, 101, 115, 105, 116, 121>>,
      \* "hair loss"
      <<104, 97, 105, 114, 32, 108, 111, 115, 115>>,
      \* "nausea"
      <<110, 97, 117, 115, 101, 97>>,
      \* "vomiting"
      <<118, 111, 109, 105, 116, 105, 110, 103>>,
      \* "diarrhea"
      <<100, 105, 97, 114, 114, 104, 101, 97>>,
      \* "constipation"
      <<99, 111, 110, 115, 116, 105, 112, 97, 116, 105, 111, 110>>,
      \* "fatigue"
      <<102, 97, 116, 105, 103, 117, 101>>,
      \* "dizziness"
      <<100, 105, 122, 122, 105, 110, 101, 115, 115>>,
      \* "fainting"
      <<102, 97, 105, 110, 116, 105, 110, 103>>,
      \* "shortness of breath"
      <<115, 104, 111, 114, 116, 110, 101, 115, 115, 32, 111, 102, 32, 98, 114, 101, 97, 116,
      104>>,
      \* "chest pain"
      <<99, 104, 101, 115, 116, 32, 112, 97, 105, 110>>,
      \* "abdominal pain"
      <<97, 98, 100, 111, 109, 105, 110, 97, 108, 32, 112, 97, 105, 110>>,
      \* "joint pain"
      <<106, 111, 105, 110, 116, 32, 112, 97, 105, 110>>,
      \* "muscle pain"
      <<109, 117, 115, 99, 108, 101, 32, 112, 97, 105, 110>>,
      \* "back pain"
      <<98, 97, 99, 107, 32, 112, 97, 105, 110>>,
      \* "skin rash"
      <<115, 107, 105, 110, 32, 114, 97, 115, 104>>,
      \* "swelling"
      <<115, 119, 101, 108, 108, 105, 110, 103>>,
      \* "numbness"
      <<110, 117, 109, 98, 110, 101, 115, 115>>,
      \* "weakness"
      <<119, 101, 97, 107, 110, 101, 115, 115>>,
      \* "blurry vision"
      <<98, 108, 117, 114, 114, 121, 32, 118, 105, 115, 105, 111, 110>>,
      \* "ear infection"
      <<101, 97, 114, 32, 105, 110, 102, 101, 99, 116, 105, 111, 110>>,
      \* "sinusitis"
      <<115, 105, 110, 117, 115, 105, 116, 105, 115>>,
      \* "gastritis"
      <<103, 97, 115, 116, 114, 105, 116, 105, 115>>,
      \* "ulcer"
      <<117, 108, 99, 101, 114>>,
      \* "food poisoning"
      <<102, 111, 111, 100, 32, 112, 111, 105, 115, 111, 110, 105, 110, 103>>,
      \* "kidney disease"
      <<107, 105, 100, 110, 101, 121, 32, 100, 105, 115, 101, 97, 115, 101>>,
      \* "liver disease"
      <<108, 105, 118, 101, 114, 32, 100, 105, 115, 101, 97, 115, 101>>,
      \* "thyroid disorder"
      <<116, 104, 121, 114, 111, 105, 100, 32, 100, 105, 115, 111, 114, 100, 101, 114>>,
      \* "autoimmune disease"
      <<97, 117, 116, 111, 105, 109, 109, 117, 110, 101, 32, 100, 105, 115, 101, 97, 115, 101>>,
      \* "seizures"
      <<115, 101, 105, 122, 117, 114, 101, 115>>,
      \* "paralysis"
      <<112, 97, 114, 97, 108, 121, 115, 105, 115>>,
      \* "mental confusion"
      <<109, 101, 110, 116, 97, 108, 32, 99, 111, 110, 102, 117, 115, 105, 111, 110>>,
      \* "loss of appetite"
      <<108, 111, 115, 115, 32, 111, 102, 32, 97, 112, 112, 101, 116, 105, 116, 101>>,
      \* "weight loss"
      <<119, 101, 105, 103, 104, 116, 32, 108, 111, 115, 115>>,
      \* "weight gain"
      <<119, 101, 105, 103, 104, 116, 32, 103, 97, 105, 110>>,
      \* "high cholesterol"
      <<104, 105, 103, 104, 32, 99, 104, 111, 108, 101, 115, 116, 101, 114, 111, 108>>,
      \* "sleep apnea"
      <<115, 108, 101, 101, 112, 32, 97, 112, 110, 101, 97>>,
      \* "insomnia"
      <<105, 110, 115, 111, 109, 110, 105, 97>>,
      \* "acid reflux"
      <<97, 99, 105, 100, 32, 114, 101, 102, 108, 117, 120>>,
      \* "irritable bowel syndrome"
      <<105, 114, 114, 105, 116, 97, 98, 108, 101, 32, 98, 111, 119, 101, 108, 32, 115, 121,
      110, 100, 114, 111, 109, 101>>,
      \* "chronic pain"
      <<99, 104, 114, 111, 110, 105, 99, 32, 112, 97, 105, 110>>,
      \* "dehydration"
      <<100, 101, 104, 121, 100, 114, 97, 116, 105, 111, 110>>,
      \* "bleeding"
      <<98, 108, 101, 101, 100, 105, 110, 103>>,
      \* "heat stroke"
      <<104, 101, 97, 116, 32, 115, 116, 114, 111, 107, 101>>,
      \* "meningitis"
      <<109, 101, 110, 105, 110, 103, 105, 116, 105, 115>>,
      \* "tuberculosis"
      <<116, 117, 98, 101, 114, 99, 117, 108, 111, 115, 105, 115>>,
      \* "hepatitis"
      <<104, 101, 112, 97, 116, 105, 116, 105, 115>>,
      \* "pancreatitis"
      <<112, 97, 110, 99, 114, 101, 97, 116, 105, 116, 105, 115>>,
      \* "lupus"
      <<108, 117, 112, 117, 115>>,
      \* "multiple sclerosis"
      <<109, 117, 108, 116, 105, 112, 108, 101, 32, 115, 99, 108, 101, 114, 111, 115, 105, 115>>,
      \* "Parkinson[U+2019]s disease"
      <<80, 97, 114, 107, 105, 110, 115, 111, 110, 8217, 115, 32, 100, 105, 115, 101, 97, 115,
      101>>,
      \* "Alzheimer[U+2019]s disease"
      <<65, 108, 122, 104, 101, 105, 109, 101, 114, 8217, 115, 32, 100, 105, 115, 101, 97, 115,
      101>>,
      \* "epilepsy"
      <<101, 112, 105, 108, 101, 112, 115, 121>>,
      \* "blood clot"
      <<98, 108, 111, 111, 100, 32, 99, 108, 111, 116>>,
      \* "varicose veins"
      <<118, 97, 114, 105, 99, 111, 115, 101, 32, 118, 101, 105, 110, 115>>,
      \* "immune deficiency"
      <<105, 109, 109, 117, 110, 101, 32, 100, 101, 102, 105, 99, 105, 101, 110, 99, 121>>,
      \* "psoriasis"
      <<112, 115, 111, 114, 105, 97, 115, 105, 115>>,
      \* "eczema"
      <<101, 99, 122, 101, 109, 97>>,
      \* "hives"
      <<104, 105, 118, 101, 115>>,
      \* "sunburn"
      <<115, 117, 110, 98, 117, 114, 110>>,
      \* "frostbite"
      <<102, 114, 111, 115, 116, 98, 105, 116, 101>>,
      \* "fracture"
      <<102, 114, 97, 99, 116, 117, 114, 101>>,
      \* "sprain"
      <<115, 112, 114, 97, 105, 110>>,
      \* "tendonitis"
      <<116, 101, 110, 100, 111, 110, 105, 116, 105, 115>>,
      \* "concussion"
      <<99, 111, 110, 99, 117, 115, 115, 105, 111, 110>>,
      \* "brain tumor"
      <<98, 114, 97, 105, 110, 32, 116, 117, 109, 111, 114>>,
      \* "leukemia"
      <<108, 101, 117, 107, 101, 109, 105, 97>>,
      \* "lymphoma"
      <<108, 121, 109, 112, 104, 111, 109, 97>>,
      \* "melanoma"
      <<109, 101, 108, 97, 110, 111, 109, 97>>
    }

\* "AIMCA: Please enter a valid medical symptom or condition."
MsgInvalidTerm ==
    <<65, 73, 77, 67, 65, 58, 32, 80, 108, 101, 97, 115, 101, 32, 101, 110, 116, 101, 114, 32,
    97, 32, 118, 97, 108, 105, 100, 32, 109, 101, 100, 105, 99, 97, 108, 32, 115, 121, 109, 112,
    116, 111, 109, 32, 111, 114, 32, 99, 111, 110, 100, 105, 116, 105, 111, 110, 46>>

\* "AIMCA: How long have you had this symptom?"
MsgDuration ==
    <<65, 73, 77, 67, 65, 58, 32, 72, 111, 119, 32, 108, 111, 110, 103, 32, 104, 97, 118, 101,
    32, 121, 111, 117, 32, 104, 97, 100, 32, 116, 104, 105, 115, 32, 115, 121, 109, 112, 116,
    111, 109, 63>>

\* "AIMCA: On a scale of 1-10, how severe is it?"
MsgSeverity ==
    <<65, 73, 77, 67, 65, 58, 32, 79, 110, 32, 97, 32, 115, 99, 97, 108, 101, 32, 111, 102, 32,
    49, 45, 49, 48, 44, 32, 104, 111, 119, 32, 115, 101, 118, 101, 114, 101, 32, 105, 115, 32,
    105, 116, 63>>

\* "AIMCA: Would you like to know precautions and when to see a doctor? (yes/no)"
MsgDecision ==
    <<65, 73, 77, 67, 65, 58, 32, 87, 111, 117, 108, 100, 32, 121, 111, 117, 32, 108, 105, 107,
    101, 32, 116, 111, 32, 107, 110, 111, 119, 32, 112, 114, 101, 99, 97, 117, 116, 105, 111,
    110, 115, 32, 97, 110, 100, 32, 119, 104, 101, 110, 32, 116, 111, 32, 115, 101, 101, 32, 97,
    32, 100, 111, 99, 116, 111, 114, 63, 32, 40, 121, 101, 115, 47, 110, 111, 41>>

\* "AIMCA: Thank you for using AIMCA!"
MsgThanks ==
    <<65, 73, 77, 67, 65, 58, 32, 84, 104, 97, 110, 107, 32, 121, 111, 117, 32, 102, 111, 114,
    32, 117, 115, 105, 110, 103, 32, 65, 73, 77, 67, 65, 33>>

\* "AIMCA: "
AimcaPrefix ==
    <<65, 73, 77, 67, 65, 58, 32>>

\* "yes"
Yes ==
    <<121, 101, 115>>

\* "Error: "
GenErrorPrefix ==
    <<69, 114, 114, 111, 114, 58, 32>>

\* "Provide a structured response for the symptom: "
QueryHead ==
    <<80, 114, 111, 118, 105, 100, 101, 32, 97, 32, 115, 116, 114, 117, 99, 116, 117, 114, 101,
    100, 32, 114, 101, 115, 112, 111, 110, 115, 101, 32, 102, 111, 114, 32, 116, 104, 101, 32,
    115, 121, 109, 112, 116, 111, 109, 58, 32>>

\* ". Include Definition, Causes, Symptoms, Risk Factors, Precautions, and When to Consult a Doctor. Also, suggest which specialist doctor to visit."
QueryTail ==
    <<46, 32, 73, 110, 99, 108, 117, 100, 101, 32, 68, 101, 102, 105, 110, 105, 116, 105, 111,
    110, 44, 32, 67, 97, 117, 115, 101, 115, 44, 32, 83, 121, 109, 112, 116, 111, 109, 115, 44,
    32, 82, 105, 115, 107, 32, 70, 97, 99, 116, 111, 114, 115, 44, 32, 80, 114, 101, 99, 97,
    117, 116, 105, 111, 110, 115, 44, 32, 97, 110, 100, 32, 87, 104, 101, 110, 32, 116, 111, 32,
    67, 111, 110, 115, 117, 108, 116, 32, 97, 32, 68, 111, 99, 116, 111, 114, 46, 32, 65, 108,
    115, 111, 44, 32, 115, 117, 103, 103, 101, 115, 116, 32, 119, 104, 105, 99, 104, 32, 115,
    112, 101, 99, 105, 97, 108, 105, 115, 116, 32, 100, 111, 99, 116, 111, 114, 32, 116, 111,
    32, 118, 105, 115, 105, 116, 46>>

\* "Do you have any other symptoms associated with this?"
Question1 ==
    <<68, 111, 32, 121, 111, 117, 32, 104, 97, 118, 101, 32, 97, 110, 121, 32, 111, 116, 104,
    101, 114, 32, 115, 121, 109, 112, 116, 111, 109, 115, 32, 97, 115, 115, 111, 99, 105, 97,
    116, 101, 100, 32, 119, 105, 116, 104, 32, 116, 104, 105, 115, 63>>

\* "Have you taken any medication or treatment for this?"
Question2 ==
    <<72, 97, 118, 101, 32, 121, 111, 117, 32, 116, 97, 107, 101, 110, 32, 97, 110, 121, 32,
    109, 101, 100, 105, 99, 97, 116, 105, 111, 110, 32, 111, 114, 32, 116, 114, 101, 97, 116,
    109, 101, 110, 116, 32, 102, 111, 114, 32, 116, 104, 105, 115, 63>>

\* "Have you experienced this before?"
Question3 ==
    <<72, 97, 118, 101, 32, 121, 111, 117, 32, 101, 120, 112, 101, 114, 105, 101, 110, 99, 101,
    100, 32, 116, 104, 105, 115, 32, 98, 101, 102, 111, 114, 101, 63>>

\* "Does it get worse under certain conditions?"
Question4 ==
    <<68, 111, 101, 115, 32, 105, 116, 32, 103, 101, 116, 32, 119, 111, 114, 115, 101, 32, 117,
    110, 100, 101, 114, 32, 99, 101, 114, 116, 97, 105, 110, 32, 99, 111, 110, 100, 105, 116,
    105, 111, 110, 115, 63>>

\* "Are there any other health issues you have that might be related?"
Question5 ==
    <<65, 114, 101, 32, 116, 104, 101, 114, 101, 32, 97, 110, 121, 32, 111, 116, 104, 101, 114,
    32, 104, 101, 97, 108, 116, 104, 32, 105, 115, 115, 117, 101, 115, 32, 121, 111, 117, 32,
    104, 97, 118, 101, 32, 116, 104, 97, 116, 32, 109, 105, 103, 104, 116, 32, 98, 101, 32, 114,
    101, 108, 97, 116, 101, 100, 63>>

\* "Error: No readable text found."
MsgNoReadableText ==
    <<69, 114, 114, 111, 114, 58, 32, 78, 111, 32, 114, 101, 97, 100, 97, 98, 108, 101, 32, 116,
    101, 120, 116, 32, 102, 111, 117, 110, 100, 46>>

\* "Error extracting text: "
ExtractErrorPrefix ==
    <<69, 114, 114, 111, 114, 32, 101, 120, 116, 114, 97, 99, 116, 105, 110, 103, 32, 116, 101,
    120, 116, 58, 32>>

\* "No text extracted from the PDF."
MsgNoTextExtracted ==
    <<78, 111, 32, 116, 101, 120, 116, 32, 101, 120, 116, 114, 97, 99, 116, 101, 100, 32, 102,
    114, 111, 109, 32, 116, 104, 101, 32, 80, 68, 70, 46>>

\* "Error"
ErrorWord ==
    <<69, 114, 114, 111, 114>>

\* "\n"
Newline ==
    <<10>>

\* "Analyze the following pathology report and provide a structured response including:\n"
PromptIntro ==
    <<65, 110, 97, 108, 121, 122, 101, 32, 116, 104, 101, 32, 102, 111, 108, 108, 111, 119, 105,
    110, 103, 32, 112, 97, 116, 104, 111, 108, 111, 103, 121, 32, 114, 101, 112, 111, 114, 116,
    32, 97, 110, 100, 32, 112, 114, 111, 118, 105, 100, 101, 32, 97, 32, 115, 116, 114, 117, 99,
    116, 117, 114, 101, 100, 32, 114, 101, 115, 112, 111, 110, 115, 101, 32, 105, 110, 99, 108,
    117, 100, 105, 110, 103, 58, 10>>

\* "1. Identified abnormalities\n"
Section1 ==
    <<49, 46, 32, 73, 100, 101, 110, 116, 105, 102, 105, 101, 100, 32, 97, 98, 110, 111, 114,
    109, 97, 108, 105, 116, 105, 101, 115, 10>>

\* "2. Possible risk factors\n"
Section2 ==
    <<50, 46, 32, 80, 111, 115, 115, 105, 98, 108, 101, 32, 114, 105, 115, 107, 32, 102, 97, 99,
    116, 111, 114, 115, 10>>

\* "3. Recommended next steps\n"
Section3 ==
    <<51, 46, 32, 82, 101, 99, 111, 109, 109, 101, 110, 100, 101, 100, 32, 110, 101, 120, 116,
    32, 115, 116, 101, 112, 115, 10>>

\* "4. Suggested specialist doctor to consult\n"
Section4 ==
    <<52, 46, 32, 83, 117, 103, 103, 101, 115, 116, 101, 100, 32, 115, 112, 101, 99, 105, 97,
    108, 105, 115, 116, 32, 100, 111, 99, 116, 111, 114, 32, 116, 111, 32, 99, 111, 110, 115,
    117, 108, 116, 10>>

\* "5. At-home remedies or lifestyle changes (if applicable)\n\n"
Section5 ==
    <<53, 46, 32, 65, 116, 45, 104, 111, 109, 101, 32, 114, 101, 109, 101, 100, 105, 101, 115,
    32, 111, 114, 32, 108, 105, 102, 101, 115, 116, 121, 108, 101, 32, 99, 104, 97, 110, 103,
    101, 115, 32, 40, 105, 102, 32, 97, 112, 112, 108, 105, 99, 97, 98, 108, 101, 41, 10, 10>>

\* "Report:\n"
ReportLabel ==
    <<82, 101, 112, 111, 114, 116, 58, 10>>

\* "Error analyzing report: "
AnalyzeErrorPrefix ==
    <<69, 114, 114, 111, 114, 32, 97, 110, 97, 108, 121, 122, 105, 110, 103, 32, 114, 101, 112,
    111, 114, 116, 58, 32>>

\* "uploads/"
UploadsDir ==
    <<117, 112, 108, 111, 97, 100, 115, 47>>

\* "No file part"
MsgNoFilePart ==
    <<78, 111, 32, 102, 105, 108, 101, 32, 112, 97, 114, 116>>

\* "No selected file"
MsgNoSelectedFile ==
    <<78, 111, 32, 115, 101, 108, 101, 99, 116, 101, 100, 32, 102, 105, 108, 101>>

(***************************************************************************)
(* Sample texts: the inputs, collaborator results and documents that the   *)
(* specifications below draw from.                                         *)
(***************************************************************************)

\* "fever"
InFever ==
    <<102, 101, 118, 101, 114>>

\* "Fever"
InFeverCapital ==
    <<70, 101, 118, 101, 114>>

\* "Parkinson[U+2019]s disease"
InParkinson ==
    <<80, 97, 114, 107, 105, 110, 115, 111, 110, 8217, 115, 32, 100, 105, 115, 101, 97, 115,
    101>>

\* "fevers"
InFevers ==
    <<102, 101, 118, 101, 114, 115>>

\* "YES"
InYesUpper ==
    <<89, 69, 83>>

\* "no"
InNo ==
    <<110, 111>>

\* "Rest."
TxtAdvice ==
    <<82, 101, 115, 116, 46>>

\* " Rest.\n"
TxtAdvicePadded ==
    <<32, 82, 101, 115, 116, 46, 10>>

\* "quota exceeded"
TxtQuota ==
    <<113, 117, 111, 116, 97, 32, 101, 120, 99, 101, 101, 100, 101, 100>>

\* "Hemoglobin: 9.2 g/dL"
TxtHemoglobin ==
    <<72, 101, 109, 111, 103, 108, 111, 98, 105, 110, 58, 32, 57, 46, 50, 32, 103, 47, 100, 76>>

\* "Error rate: 2%"
TxtErrorRate ==
    <<69, 114, 114, 111, 114, 32, 114, 97, 116, 101, 58, 32, 50, 37>>

\* " "
TxtBlank ==
    <<32>>

\* "No such file"
TxtNoSuchFile ==
    <<78, 111, 32, 115, 117, 99, 104, 32, 102, 105, 108, 101>>

\* "bad page"
TxtBadPage ==
    <<98, 97, 100, 32, 112, 97, 103, 101>>

\* "report.pdf"
FileReport ==
    <<114, 101, 112, 111, 114, 116, 46, 112, 100, 102>>

(***************************************************************************)
(* Bounds of the model.                                                    *)
(***************************************************************************)

\* the number of /chat requests a behaviour of Spec makes
MaxChats == 10

\* the number of /chat requests a behaviour of SpecCycles makes: two
\* consultation cycles and the start of a third
MaxCycleChats == 19

\* the number of /chat requests a behaviour of SpecSession makes: one
\* consultation cycle and the start of a second
MaxSessionChats == 10

\* the number of /chat requests a behaviour of SpecThreads makes: up to the
\* yes/no prompt and one request more
MaxThreadChats == 9

\* /chat requests of the two clients together
MaxClientChats == 10

\* the number of direct generate_ai_response calls a behaviour of SpecGenerate makes
MaxGenerates == 3

\* the number of /upload requests a behaviour of SpecUpload makes
MaxUploads == 3

(***************************************************************************)
(* str operations, on code-point sequences.                                *)
(***************************************************************************)

\* str.lower(): the texts of the model hold ASCII and U+2019 only, where
\* lower() maps A..Z to a..z and leaves every other character alone.
lower(s) == [i \in 1..Len(s) |-> IF s[i] \in 65..90 THEN s[i] + 32 ELSE s[i]]

\* the characters str.strip() removes (str.isspace, code points below 256)
IsSpace(c) == c \in {9, 10, 11, 12, 13, 28, 29, 30, 31, 32, 133, 160}

\* str.strip(): drop the leading and the trailing whitespace
strip(s) ==
    LET kept == {i \in 1..Len(s) : ~IsSpace(s[i])}
        first == CHOOSE i \in kept : \A j \in kept : i <= j
        last == CHOOSE i \in kept : \A j \in kept : j <= i
    IN  IF kept = {} THEN <<>> ELSE SubSeq(s, first, last)

\* Python's `sub in s` for two str
Contains(sub, s) ==
    \E i \in 0..(Len(s) - Len(sub)) : SubSeq(s, i + 1, i + Len(sub)) = sub

\* dict item assignment d[k] = v
Put(d, k, v) == [x \in (DOMAIN d) \cup {k} |-> IF x = k THEN v ELSE d[x]]

(***************************************************************************)
(* State.                                                                  *)
(***************************************************************************)

VARIABLES
    stage,                   \* assistant.stage
    current_symptom,         \* assistant.current_symptom
    current_question_index,  \* assistant.current_question_index
    symptom_responses,       \* assistant.symptom_responses: prompt -> text
    model_calls,             \* the prompts handed to generate_content, in order
    analyzer,                \* the global analyzer: None or its fields
    pathology_log,           \* the records appended to PATHOLOGY_LOG, in order
    clock,                   \* datetime.datetime.now(): the /upload requests so far
    request,                 \* the input of the latest request or call
    response,                \* what the latest request or call returned: the key
                             \* and the value of the JSON object of a handler
    raised,                  \* whether the latest request or call raised
    first_request,           \* the message of the first /chat request
    outputs,                 \* the responses of all /chat requests, in order
    generate_log,            \* the direct generate_ai_response calls, in order
    cycle,                   \* the consultation cycle in progress, as a client sees it
    spec_session,            \* the five-state dialog session of the specification
    threads,                 \* the request threads inside start_consultation
    clients                  \* the clients of /chat and the session each would have alone

vars ==
    <<stage, current_symptom, current_question_index, symptom_responses, model_calls,
      analyzer, pathology_log, clock, request, response, raised, first_request,
      outputs, generate_log, cycle, spec_session, threads, clients>>

sessionVars == <<stage, current_symptom, current_question_index>>

analyzerVars == <<analyzer, pathology_log, clock>>

chatHistory == <<first_request, outputs>>

observers == <<cycle, spec_session, threads, clients>>

\* the threads of the server that handle /chat requests at the same time
Threads == {1, 2}

\* a thread with no request: its position in start_consultation, the message
\* of its request and its locals
IdleThread == [pc |-> "idle", message |-> None, question |-> None, loaded |-> 0]

\* no thread has a request; overlapped and out_of_range record whether two
\* threads were ever inside the stage-2 branch together and whether the
\* question list was ever read out of range
NoRequests ==
    [run |-> [t \in Threads |-> IdleThread], overlapped |-> FALSE, out_of_range |-> FALSE]

\* the initial ConsultationSession of the specification
InitialSession ==
    [stage |-> "AwaitingSymptom", currentSymptom |-> None, followupIndex |-> 0,
     responseCache |-> <<>>, prompt |-> None]

\* the clients that send /chat requests to the one server process
Clients == {"A", "B"}

\* no client has sent a message: the sender of the latest message, the number
\* of messages each client has sent, and for each client the session of the
\* specification advanced on the messages of that client only
NoClients ==
    [sender |-> "none", sent |-> [c \in Clients |-> 0],
     alone |-> [c \in Clients |-> InitialSession]]

\* no /chat request yet: no symptom was accepted and no advice was generated
NoCycle ==
    [chats |-> 0, n |-> 0, symptom |-> None, outputs |-> <<>>, advised |-> {},
     cache_hits |-> 0]

\* AIMedicalAssistant.__init__, analyzer = None, and empty logs
Init ==
    /\ stage = 0
    /\ current_symptom = None
    /\ current_question_index = 0
    /\ symptom_responses = <<>>
    /\ model_calls = <<>>
    /\ analyzer = None
    /\ pathology_log = <<>>
    /\ clock = 0
    /\ request = None
    /\ response = [key |-> "none", value |-> None]
    /\ raised = FALSE
    /\ first_request = None
    /\ outputs = <<>>
    /\ generate_log = <<>>
    /\ cycle = NoCycle
    /\ spec_session = InitialSession
    /\ threads = NoRequests
    /\ clients = NoClients

(***************************************************************************)
(* The external text-generation collaborator (genai.GenerativeModel and    *)
(* generate_content).  One use of it either succeeds with a text or raises *)
(* an exception with a message; model_calls records every prompt it was    *)
(* used with.                                                              *)
(***************************************************************************)

Succeeds(text) == [ok |-> TRUE, text |-> text]

Fails(e) == [ok |-> FALSE, text |-> e]

Outcomes == {Succeeds(TxtAdvice), Succeeds(TxtAdvicePadded), Fails(TxtQuota)}

(***************************************************************************)
(* AIMedicalAssistant                                                      *)
(***************************************************************************)

\* generate_ai_response without line 68: the result is never stored
generate_ai_response_uncached(user_input, outcome) ==
    IF user_input \in DOMAIN symptom_responses
    THEN [ret |-> symptom_responses[user_input], raised |-> FALSE,
          symptom_responses |-> symptom_responses, model_calls |-> model_calls]
    ELSE [ret |-> IF outcome.ok THEN strip(outcome.text)
                  ELSE GenErrorPrefix \o outcome.text,
          raised |-> FALSE, symptom_responses |-> symptom_responses,
          model_calls |-> Append(model_calls, user_input)]

\* generate_ai_response storing in the except branch too: the error text is cached
generate_ai_response_caches_error(user_input, outcome) ==
    IF user_input \in DOMAIN symptom_responses
    THEN [ret |-> symptom_responses[user_input], raised |-> FALSE,
          symptom_responses |-> symptom_responses, model_calls |-> model_calls]
    ELSE LET ai_response == IF outcome.ok THEN strip(outcome.text)
                            ELSE GenErrorPrefix \o outcome.text
         IN  [ret |-> ai_response, raised |-> FALSE,
              symptom_responses |-> Put(symptom_responses, user_input, ai_response),
              model_calls |-> Append(model_calls, user_input)]

\* generate_ai_response keeping the latest result only: line 68 as
\* self.symptom_responses = {user_input: ai_response}
generate_ai_response_keeps_latest(user_input, outcome) ==
    IF user_input \in DOMAIN symptom_responses
    THEN [ret |-> symptom_responses[user_input], raised |-> FALSE,
          symptom_responses |-> symptom_responses, model_calls |-> model_calls]
    ELSE IF outcome.ok
    THEN LET ai_response == strip(outcome.text)
         IN  [ret |-> ai_response, raised |-> FALSE,
              symptom_responses |-> Put(<<>>, user_input, ai_response),
              model_calls |-> Append(model_calls, user_input)]
    ELSE [ret |-> GenErrorPrefix \o outcome.text, raised |-> FALSE,
          symptom_responses |-> symptom_responses,
          model_calls |-> Append(model_calls, user_input)]

\* generate_ai_response: the value returned, whether an exception leaves the
\* method, and the cache and the collaborator's call log afterwards
generate_ai_response(user_input, outcome) ==
    IF user_input \in DOMAIN symptom_responses
    THEN [ret |-> symptom_responses[user_input], raised |-> FALSE,
          symptom_responses |-> symptom_responses, model_calls |-> model_calls]
    ELSE IF outcome.ok
    THEN LET ai_response == strip(outcome.text)
         IN  [ret |-> ai_response, raised |-> FALSE,
              symptom_responses |-> Put(symptom_responses, user_input, ai_response),
              model_calls |-> Append(model_calls, user_input)]
    ELSE [ret |-> GenErrorPrefix \o outcome.text, raised |-> FALSE,
          symptom_responses |-> symptom_responses,
          model_calls |-> Append(model_calls, user_input)]

\* structured_response building the query from the lowercased symptom
structured_response_lowercased(symptom, outcome) ==
    generate_ai_response(QueryHead \o lower(symptom) \o QueryTail, outcome)

\* structured_response
structured_response(symptom, outcome) ==
    generate_ai_response(QueryHead \o symptom \o QueryTail, outcome)

get_additional_questions == <<Question1, Question2, Question3, Question4, Question5>>

\* the assistant's fields as start_consultation finds them
Unchanged ==
    [stage |-> stage, current_symptom |-> current_symptom,
     current_question_index |-> current_question_index,
     symptom_responses |-> symptom_responses, model_calls |-> model_calls,
     raised |-> FALSE, ret |-> None]

\* stage 0 with line 97 moved above the test of line 95
consult_symptom_assigns_first(user_input) ==
    IF lower(user_input) \notin VALID_MEDICAL_TERMS
    THEN [Unchanged EXCEPT !.ret = MsgInvalidTerm, !.current_symptom = user_input]
    ELSE [Unchanged EXCEPT !.ret = MsgDuration, !.current_symptom = user_input,
                           !.stage = 1]

\* stage 0 storing the lowercased input as the symptom
consult_symptom_stores_lowercase(user_input) ==
    IF lower(user_input) \notin VALID_MEDICAL_TERMS
    THEN [Unchanged EXCEPT !.ret = MsgInvalidTerm]
    ELSE [Unchanged EXCEPT !.ret = MsgDuration,
                           !.current_symptom = lower(user_input), !.stage = 1]

\* stage 0 assigning current_symptom only while it is None
consult_symptom_keeps_first(user_input) ==
    IF lower(user_input) \notin VALID_MEDICAL_TERMS
    THEN [Unchanged EXCEPT !.ret = MsgInvalidTerm]
    ELSE [Unchanged EXCEPT !.ret = MsgDuration,
                           !.current_symptom = IF current_symptom = None
                                               THEN user_input
                                               ELSE current_symptom,
                           !.stage = 1]

\* start_consultation, self.stage == 0
consult_symptom(user_input) ==
    IF lower(user_input) \notin VALID_MEDICAL_TERMS
    THEN [Unchanged EXCEPT !.ret = MsgInvalidTerm]
    ELSE [Unchanged EXCEPT !.ret = MsgDuration, !.current_symptom = user_input,
                           !.stage = 1]

\* stage 1 without line 103: the stage is not advanced
consult_duration_keeps_stage ==
    [Unchanged EXCEPT !.ret = MsgSeverity]

\* start_consultation, self.stage == 1
consult_duration ==
    [Unchanged EXCEPT !.ret = MsgSeverity, !.stage = 2]

\* stage 2 without line 112: the index is not reset after the last question
consult_followups_without_reset ==
    LET additional_questions == get_additional_questions
    IN  IF current_question_index < Len(additional_questions)
        THEN LET question == additional_questions[current_question_index + 1]
             IN  [Unchanged EXCEPT !.ret = AimcaPrefix \o question,
                                   !.current_question_index = current_question_index + 1]
        ELSE [Unchanged EXCEPT !.ret = MsgDecision, !.stage = 3]

\* start_consultation, self.stage == 2
consult_followups ==
    LET additional_questions == get_additional_questions
    IN  IF current_question_index < Len(additional_questions)
        THEN LET question == additional_questions[current_question_index + 1]
             IN  [Unchanged EXCEPT !.ret = AimcaPrefix \o question,
                                   !.current_question_index = current_question_index + 1]
        ELSE [Unchanged EXCEPT !.ret = MsgDecision, !.current_question_index = 0,
                               !.stage = 3]

\* stage 3 without line 122: a message other than "yes" leaves the stage at 3
consult_decision_stays_open(user_input, outcome) ==
    IF lower(user_input) = Yes
    THEN LET g == structured_response(current_symptom, outcome)
         IN  [Unchanged EXCEPT !.ret = AimcaPrefix \o g.ret, !.stage = 0,
                               !.symptom_responses = g.symptom_responses,
                               !.model_calls = g.model_calls]
    ELSE [Unchanged EXCEPT !.ret = MsgThanks]

\* stage 3 keeping the stage when the advice is an error string
consult_decision_stays_on_error(user_input, outcome) ==
    IF lower(user_input) = Yes
    THEN LET g == structured_response(current_symptom, outcome)
         IN  [Unchanged EXCEPT !.ret = AimcaPrefix \o g.ret,
                               !.stage = IF Contains(GenErrorPrefix, g.ret) THEN 3 ELSE 0,
                               !.symptom_responses = g.symptom_responses,
                               !.model_calls = g.model_calls]
    ELSE [Unchanged EXCEPT !.ret = MsgThanks, !.stage = 0]

\* start_consultation, self.stage == 3; an exception leaving
\* structured_response would leave start_consultation before self.stage = 0
consult_decision(user_input, outcome) ==
    IF lower(user_input) = Yes
    THEN LET g == structured_response(current_symptom, outcome)
         IN  IF g.raised
             THEN [Unchanged EXCEPT !.raised = TRUE,
                                    !.symptom_responses = g.symptom_responses,
                                    !.model_calls = g.model_calls]
             ELSE [Unchanged EXCEPT !.ret = AimcaPrefix \o g.ret, !.stage = 0,
                                    !.symptom_responses = g.symptom_responses,
                                    !.model_calls = g.model_calls]
    ELSE [Unchanged EXCEPT !.ret = MsgThanks, !.stage = 0]

\* start_consultation: the if/elif chain; with no branch taken the method
\* falls off its end and returns None
start_consultation(user_input, outcome) ==
    IF stage = 0 THEN consult_symptom(user_input)
    ELSE IF stage = 1 THEN consult_duration
    ELSE IF stage = 2 THEN consult_followups
    ELSE IF stage = 3 THEN consult_decision(user_input, outcome)
    ELSE Unchanged

(***************************************************************************)
(* The /chat handler.                                                      *)
(***************************************************************************)

\* the messages a client sends
Messages == {InFever, InFeverCapital, InParkinson, InFevers, InYesUpper, Yes, InNo}

chat(user_input, outcome) ==
    /\ Len(outputs) < MaxChats
    /\ LET r == start_consultation(user_input, outcome)
       IN  /\ stage' = r.stage
           /\ current_symptom' = r.current_symptom
           /\ current_question_index' = r.current_question_index
           /\ symptom_responses' = r.symptom_responses
           /\ model_calls' = r.model_calls
           /\ response' = [key |-> "response", value |-> r.ret]
           /\ raised' = r.raised
           /\ outputs' = Append(outputs, r.ret)
    /\ request' = user_input
    /\ first_request' = IF outputs = <<>> THEN user_input ELSE first_request
    /\ UNCHANGED <<analyzerVars, generate_log, observers>>

(***************************************************************************)
(* A direct call of assistant.generate_ai_response.                        *)
(***************************************************************************)

\* the prompts of the direct calls: the queries structured_response builds
Prompts == {QueryHead \o InFever \o QueryTail, QueryHead \o InFeverCapital \o QueryTail}

generate(user_input, outcome) ==
    /\ Len(generate_log) < MaxGenerates
    /\ LET g == generate_ai_response(user_input, outcome)
       IN  /\ symptom_responses' = g.symptom_responses
           /\ model_calls' = g.model_calls
           /\ response' = [key |-> "return", value |-> g.ret]
           /\ raised' = g.raised
           /\ generate_log' =
                  Append(generate_log,
                         [prompt |-> user_input, outcome |-> outcome, ret |-> g.ret,
                          raised |-> g.raised,
                          cached |-> user_input \in DOMAIN symptom_responses,
                          sent |-> Len(g.model_calls) - Len(model_calls)])
    /\ request' = user_input
    /\ UNCHANGED <<sessionVars, analyzerVars, chatHistory, observers>>

(***************************************************************************)
(* PathologyReportAnalyzer                                                 *)
(***************************************************************************)

\* the width of the separator line log_analysis writes
SeparatorWidth == 80

\* '=' * 80
Separator == [i \in 1..SeparatorWidth |-> 61]

\* What pdfplumber finds at a path: opening the file raises, or the file has
\* pages; page.extract_text() gives a text, '' or None, or raises.
Page(text) == [raises |-> FALSE, text |-> text]

BadPage(e) == [raises |-> TRUE, text |-> e]

Pdf(pages) == [open_error |-> None, pages |-> pages]

Unreadable(e) == [open_error |-> e, pages |-> <<>>]

\* the loop of extract_text_from_pdf from page i on: the text accumulated
\* and the exception, if any, that ended the loop
RECURSIVE ExtractPages(_, _, _)
ExtractPages(pages, i, extracted_text) ==
    IF i > Len(pages) THEN [extracted_text |-> extracted_text, error |-> None]
    ELSE IF pages[i].raises
    THEN [extracted_text |-> extracted_text, error |-> pages[i].text]
    ELSE LET text == pages[i].text
         IN  IF text # None /\ text # <<>>
             THEN ExtractPages(pages, i + 1, extracted_text \o text \o Newline)
             ELSE ExtractPages(pages, i + 1, extracted_text)

\* extract_text_from_pdf on an analyzer whose extracted_text is still ""
extract_text_from_pdf(pdf) ==
    IF pdf.open_error # None
    THEN [ret |-> ExtractErrorPrefix \o pdf.open_error, extracted_text |-> <<>>]
    ELSE LET x == ExtractPages(pdf.pages, 1, <<>>)
         IN  IF x.error # None
             THEN [ret |-> ExtractErrorPrefix \o x.error,
                   extracted_text |-> x.extracted_text]
             ELSE [ret |-> IF x.extracted_text # <<>> THEN x.extracted_text
                           ELSE MsgNoReadableText,
                   extracted_text |-> x.extracted_text]

\* the prompt of analyze_report
AnalysisPrompt(extracted_text) ==
    PromptIntro \o Section1 \o Section2 \o Section3 \o Section4 \o Section5
        \o ReportLabel \o extracted_text

\* analyze_report: the value returned and the collaborator's call log afterwards
analyze_report(extracted_text, outcome) ==
    IF extracted_text = <<>>
    THEN [ret |-> MsgNoTextExtracted, model_calls |-> model_calls]
    ELSE LET prompt == AnalysisPrompt(extracted_text)
         IN  [ret |-> IF outcome.ok THEN strip(outcome.text)
                      ELSE AnalyzeErrorPrefix \o outcome.text,
              model_calls |-> Append(model_calls, prompt)]

\* log_analysis: the log after the append of the timestamp line, the result
\* and the separator line
log_analysis(analysis_result) ==
    Append(pathology_log,
           [timestamp |-> clock, result |-> analysis_result, separator |-> Separator])

\* run_analysis on a fresh analyzer: a bare `return` gives None
run_analysis(pdf, outcome) ==
    LET x == extract_text_from_pdf(pdf)
    IN  IF Contains(ErrorWord, x.ret)
        THEN [ret |-> None, extracted_text |-> x.extracted_text,
              model_calls |-> model_calls, pathology_log |-> pathology_log]
        ELSE LET a == analyze_report(x.extracted_text, outcome)
             IN  [ret |-> a.ret, extracted_text |-> x.extracted_text,
                  model_calls |-> a.model_calls,
                  pathology_log |-> log_analysis(a.ret)]

(***************************************************************************)
(* The /upload handler.                                                    *)
(***************************************************************************)

\* a multipart request with or without a file part; the part has a filename
\* and the content that is saved to the uploads directory
NoFilePart == [has_file |-> FALSE, filename |-> <<>>, pdf |-> Pdf(<<>>)]

FilePart(filename, pdf) == [has_file |-> TRUE, filename |-> filename, pdf |-> pdf]

Pdfs ==
    {Pdf(<<Page(TxtHemoglobin)>>),
     Pdf(<<Page(None), Page(TxtHemoglobin), Page(TxtBlank)>>),
     Pdf(<<Page(TxtErrorRate)>>),
     Pdf(<<Page(TxtBlank)>>),
     Pdf(<<>>),
     Pdf(<<Page(None), Page(<<>>)>>),
     Pdf(<<Page(TxtHemoglobin), BadPage(TxtBadPage)>>),
     Unreadable(TxtNoSuchFile)}

Uploads ==
    {NoFilePart, FilePart(<<>>, Pdf(<<Page(TxtHemoglobin)>>))}
        \cup {FilePart(FileReport, pdf) : pdf \in Pdfs}

\* upload without the test of lines 203-204: an empty filename is analyzed
upload_without_filename_test(req, outcome) ==
    /\ clock < MaxUploads
    /\ clock' = clock + 1
    /\ request' = [upload |-> req, outcome |-> outcome]
    /\ raised' = FALSE
    /\ IF ~req.has_file
       THEN /\ response' = [key |-> "error", value |-> MsgNoFilePart]
            /\ UNCHANGED <<analyzer, pathology_log, model_calls>>
       ELSE LET file_path == UploadsDir \o req.filename
                r == run_analysis(req.pdf, outcome)
            IN  /\ analyzer' = [pdf_path |-> file_path,
                                extracted_text |-> r.extracted_text]
                /\ pathology_log' = r.pathology_log
                /\ model_calls' = r.model_calls
                /\ response' = [key |-> "response", value |-> r.ret]
    /\ UNCHANGED <<sessionVars, symptom_responses, chatHistory, generate_log, observers>>

upload(req, outcome) ==
    /\ clock < MaxUploads
    /\ clock' = clock + 1
    /\ request' = [upload |-> req, outcome |-> outcome]
    /\ raised' = FALSE
    /\ IF ~req.has_file
       THEN /\ response' = [key |-> "error", value |-> MsgNoFilePart]
            /\ UNCHANGED <<analyzer, pathology_log, model_calls>>
       ELSE IF req.filename = <<>>
       THEN /\ response' = [key |-> "error", value |-> MsgNoSelectedFile]
            /\ UNCHANGED <<analyzer, pathology_log, model_calls>>
       ELSE LET file_path == UploadsDir \o req.filename
                r == run_analysis(req.pdf, outcome)
            IN  /\ analyzer' = [pdf_path |-> file_path,
                                extracted_text |-> r.extracted_text]
                /\ pathology_log' = r.pathology_log
                /\ model_calls' = r.model_calls
                /\ response' = [key |-> "response", value |-> r.ret]
    /\ UNCHANGED <<sessionVars, symptom_responses, chatHistory, generate_log, observers>>

(***************************************************************************)
(* The ConsultationSession of the specification: the five-state dialog     *)
(* machine and its cached generation call.  The specification fixes the    *)
(* states, the transitions and followupIndex but not the wording of the    *)
(* prompts, the query or the error string: those are the literals of the   *)
(* source, the speaker label "AIMCA: " included.                           *)
(***************************************************************************)

followupQuestions == get_additional_questions

\* the term validator
isValidTerm(text) == lower(text) \in VALID_MEDICAL_TERMS

\* the cached generation call: the text returned and the cache afterwards
cachedGenerate(responseCache, prompt, outcome) ==
    IF prompt \in DOMAIN responseCache
    THEN [text |-> responseCache[prompt], responseCache |-> responseCache]
    ELSE IF outcome.ok
    THEN [text |-> strip(outcome.text),
          responseCache |-> Put(responseCache, prompt, strip(outcome.text))]
    ELSE [text |-> GenErrorPrefix \o outcome.text, responseCache |-> responseCache]

generateStructuredAdvice(responseCache, symptom, outcome) ==
    cachedGenerate(responseCache, QueryHead \o symptom \o QueryTail, outcome)

\* advance(userInput): the session afterwards, with the prompt returned
advance(s, userInput, outcome) ==
    CASE s.stage = "AwaitingSymptom" ->
            IF isValidTerm(userInput)
            THEN [s EXCEPT !.currentSymptom = userInput, !.stage = "AwaitingDuration",
                           !.prompt = MsgDuration]
            ELSE [s EXCEPT !.prompt = MsgInvalidTerm]
      [] s.stage = "AwaitingDuration" ->
            [s EXCEPT !.stage = "AwaitingSeverity", !.prompt = MsgSeverity]
      [] s.stage = "AwaitingSeverity" ->
            [s EXCEPT !.stage = "AwaitingFollowups",
                      !.prompt = AimcaPrefix \o followupQuestions[s.followupIndex + 1],
                      !.followupIndex = s.followupIndex + 1]
      [] s.stage = "AwaitingFollowups" ->
            IF s.followupIndex < Len(followupQuestions)
            THEN [s EXCEPT !.prompt = AimcaPrefix \o followupQuestions[s.followupIndex + 1],
                           !.followupIndex = s.followupIndex + 1]
            ELSE [s EXCEPT !.followupIndex = 0, !.stage = "AwaitingDecision",
                           !.prompt = MsgDecision]
      [] s.stage = "AwaitingDecision" ->
            IF lower(userInput) = Yes
            THEN LET g == generateStructuredAdvice(s.responseCache, s.currentSymptom,
                                                   outcome)
                 IN  [s EXCEPT !.prompt = AimcaPrefix \o g.text,
                               !.responseCache = g.responseCache,
                               !.stage = "AwaitingSymptom", !.currentSymptom = None]
            ELSE [s EXCEPT !.prompt = MsgThanks, !.stage = "AwaitingSymptom",
                           !.currentSymptom = None]

(***************************************************************************)
(* The /chat handler, observed cycle by cycle and with the session of the  *)
(* specification advanced on the same messages.                            *)
(***************************************************************************)

\* what is seen of the cycle after a request that found the assistant in
\* stage `before` and was answered with r: a cycle starts when a symptom is
\* accepted and its responses are collected up to the closing one; advised
\* holds the symptoms, as typed, whose "yes" brought a successful generation
\* and cache_hits counts the "yes" answered without a collaborator call
ObserveCycle(before, user_input, outcome, r) ==
    [chats |-> cycle.chats + 1,
     n |-> IF before = 0 /\ r.stage = 1 THEN cycle.n + 1 ELSE cycle.n,
     symptom |-> IF before = 0 /\ r.stage = 1 THEN user_input ELSE cycle.symptom,
     outputs |-> IF before = 0
                 THEN IF r.stage = 1 THEN <<r.ret>> ELSE cycle.outputs
                 ELSE Append(cycle.outputs, r.ret),
     advised |-> IF /\ before = 3
                    /\ lower(user_input) = Yes
                    /\ outcome.ok
                    /\ Len(r.model_calls) = Len(model_calls) + 1
                 THEN cycle.advised \cup {cycle.symptom}
                 ELSE cycle.advised,
     cache_hits |-> IF /\ before = 3
                       /\ lower(user_input) = Yes
                       /\ r.model_calls = model_calls
                    THEN cycle.cache_hits + 1
                    ELSE cycle.cache_hits]

chat_cycle(user_input, outcome) ==
    /\ cycle.chats < MaxCycleChats
    /\ LET r == start_consultation(user_input, outcome)
       IN  /\ stage' = r.stage
           /\ current_symptom' = r.current_symptom
           /\ current_question_index' = r.current_question_index
           /\ symptom_responses' = r.symptom_responses
           /\ model_calls' = r.model_calls
           /\ response' = [key |-> "response", value |-> r.ret]
           /\ raised' = r.raised
           /\ cycle' = ObserveCycle(stage, user_input, outcome, r)
    /\ spec_session' = advance(spec_session, user_input, outcome)
    /\ request' = user_input
    /\ UNCHANGED <<analyzerVars, generate_log, chatHistory, threads, clients>>

(***************************************************************************)
(* /chat requests handled by two threads at the same time on the global    *)
(* assistant.  The stage-2 branch of start_consultation (lines 105-114) is *)
(* taken statement by statement, and the += of line 109 as a load and a    *)
(* store; the other branches are taken in one step.                        *)
(***************************************************************************)

\* the messages of the requests
ThreadMessages == {InFever, Yes, InNo}

\* thread t is inside the stage-2 branch
InFollowups(t) ==
    threads.run[t].pc \in {"check", "read", "load", "store", "return", "reset", "advance"}

\* chat, lines 193-194: a request arrives and start_consultation is called
t_begin(t, user_input) ==
    /\ threads.run[t].pc = "idle"
    /\ cycle.chats < MaxThreadChats
    /\ threads' = [threads EXCEPT !.run[t] =
                       [IdleThread EXCEPT !.pc = "dispatch", !.message = user_input]]
    /\ cycle' = [cycle EXCEPT !.chats = @ + 1]
    /\ request' = user_input
    /\ UNCHANGED <<sessionVars, symptom_responses, model_calls, analyzerVars, response,
                   raised, chatHistory, generate_log, spec_session,
                   clients>>

\* the if/elif chain on self.stage: the stage-2 branch is entered, any other
\* branch is executed to its return
t_dispatch(t, outcome) ==
    /\ threads.run[t].pc = "dispatch"
    /\ IF stage = 2
       THEN /\ threads' = [threads EXCEPT
                              !.run[t].pc = "check",
                              !.overlapped = @ \/ \E u \in Threads \ {t} : InFollowups(u)]
            /\ UNCHANGED <<sessionVars, symptom_responses, model_calls, response, raised>>
       ELSE LET r == start_consultation(threads.run[t].message, outcome)
            IN  /\ stage' = r.stage
                /\ current_symptom' = r.current_symptom
                /\ current_question_index' = r.current_question_index
                /\ symptom_responses' = r.symptom_responses
                /\ model_calls' = r.model_calls
                /\ response' = [key |-> "response", value |-> r.ret]
                /\ raised' = r.raised
                /\ threads' = [threads EXCEPT !.run[t] = IdleThread]
    /\ UNCHANGED <<analyzerVars, request, chatHistory, generate_log, cycle, spec_session,
                   clients>>

\* line 107 with <= for <
t_check_inclusive(t) ==
    /\ threads.run[t].pc = "check"
    /\ threads' = [threads EXCEPT
                      !.run[t].pc =
                          IF current_question_index <= Len(get_additional_questions)
                          THEN "read"
                          ELSE "reset"]
    /\ UNCHANGED <<sessionVars, symptom_responses, model_calls, analyzerVars, request,
                   response, raised, chatHistory, generate_log, cycle, spec_session,
                   clients>>

\* line 107: the bound check
t_check(t) ==
    /\ threads.run[t].pc = "check"
    /\ threads' = [threads EXCEPT
                      !.run[t].pc =
                          IF current_question_index < Len(get_additional_questions)
                          THEN "read"
                          ELSE "reset"]
    /\ UNCHANGED <<sessionVars, symptom_responses, model_calls, analyzerVars, request,
                   response, raised, chatHistory, generate_log, cycle, spec_session,
                   clients>>

\* line 108: the read of the list; out of range it raises IndexError, which
\* ends the request
t_read(t) ==
    /\ threads.run[t].pc = "read"
    /\ IF current_question_index < Len(get_additional_questions)
       THEN /\ threads' = [threads EXCEPT
                              !.run[t].pc = "load",
                              !.run[t].question =
                                  get_additional_questions[current_question_index + 1]]
            /\ UNCHANGED <<response, raised>>
       ELSE /\ threads' = [threads EXCEPT !.run[t] = IdleThread, !.out_of_range = TRUE]
            /\ response' = [key |-> "IndexError", value |-> None]
            /\ raised' = TRUE
    /\ UNCHANGED <<sessionVars, symptom_responses, model_calls, analyzerVars, request,
                   chatHistory, generate_log, cycle, spec_session,
                   clients>>

\* line 109, the load of self.current_question_index
t_load(t) ==
    /\ threads.run[t].pc = "load"
    /\ threads' = [threads EXCEPT !.run[t].pc = "store",
                                  !.run[t].loaded = current_question_index]
    /\ UNCHANGED <<sessionVars, symptom_responses, model_calls, analyzerVars, request,
                   response, raised, chatHistory, generate_log, cycle, spec_session,
                   clients>>

\* line 109, the store of the incremented value
t_store(t) ==
    /\ threads.run[t].pc = "store"
    /\ current_question_index' = threads.run[t].loaded + 1
    /\ threads' = [threads EXCEPT !.run[t].pc = "return"]
    /\ UNCHANGED <<stage, current_symptom, symptom_responses, model_calls, analyzerVars,
                   request, response, raised, chatHistory, generate_log, cycle,
                   spec_session,
                   clients>>

\* line 110
t_return(t) ==
    /\ threads.run[t].pc = "return"
    /\ response' = [key |-> "response", value |-> AimcaPrefix \o threads.run[t].question]
    /\ raised' = FALSE
    /\ threads' = [threads EXCEPT !.run[t] = IdleThread]
    /\ UNCHANGED <<sessionVars, symptom_responses, model_calls, analyzerVars, request,
                   chatHistory, generate_log, cycle, spec_session,
                   clients>>

\* line 112
t_reset(t) ==
    /\ threads.run[t].pc = "reset"
    /\ current_question_index' = 0
    /\ threads' = [threads EXCEPT !.run[t].pc = "advance"]
    /\ UNCHANGED <<stage, current_symptom, symptom_responses, model_calls, analyzerVars,
                   request, response, raised, chatHistory, generate_log, cycle,
                   spec_session,
                   clients>>

\* lines 113-114
t_advance(t) ==
    /\ threads.run[t].pc = "advance"
    /\ stage' = 3
    /\ response' = [key |-> "response", value |-> MsgDecision]
    /\ raised' = FALSE
    /\ threads' = [threads EXCEPT !.run[t] = IdleThread]
    /\ UNCHANGED <<current_symptom, current_question_index, symptom_responses,
                   model_calls, analyzerVars, request, chatHistory, generate_log, cycle,
                   spec_session,
                   clients>>

(***************************************************************************)
(* /chat requests of two clients on the global assistant, one request at a *)
(* time: start_consultation runs to its return before the next request.    *)
(* Nothing in a request tells the clients apart (chat reads only the       *)
(* "message" field), so the client is an observer's label.                 *)
(***************************************************************************)

\* the messages of the clients: a listed term, an unlisted word, "yes"
ClientMessages == {InFever, InFevers, Yes}

\* the other client
Other(c) == CHOOSE o \in Clients : o # c

\* chat, for a request of client c
client_chat(c, user_input, outcome) ==
    /\ clients.sent["A"] + clients.sent["B"] < MaxClientChats
    /\ LET r == start_consultation(user_input, outcome)
       IN  /\ stage' = r.stage
           /\ current_symptom' = r.current_symptom
           /\ current_question_index' = r.current_question_index
           /\ symptom_responses' = r.symptom_responses
           /\ model_calls' = r.model_calls
           /\ response' = [key |-> "response", value |-> r.ret]
           /\ raised' = r.raised
    /\ clients' = [clients EXCEPT !.sender = c,
                                  !.sent[c] = @ + 1,
                                  !.alone[c] = advance(@, user_input, outcome)]
    /\ spec_session' = advance(spec_session, user_input, outcome)
    /\ request' = user_input
    /\ UNCHANGED <<analyzerVars, generate_log, chatHistory, cycle, threads>>

(***************************************************************************)
(* Specifications.                                                         *)
(***************************************************************************)

\* the /chat requests of one client after another on the global assistant
Next == \E user_input \in Messages, outcome \in Outcomes : chat(user_input, outcome)

Spec == Init /\ [][Next]_vars

\* direct calls of generate_ai_response on one assistant
NextGenerate == \E user_input \in Prompts, outcome \in Outcomes : generate(user_input, outcome)

SpecGenerate == Init /\ [][NextGenerate]_vars

\* /chat requests one after another, over several consultation cycles
NextCycles == \E user_input \in Messages, outcome \in Outcomes : chat_cycle(user_input, outcome)

SpecCycles == Init /\ [][NextCycles]_vars

\* /chat requests and direct calls of generate_ai_response on the one
\* assistant, in any order
SessionMessages == {InFever, Yes, InNo}

SessionOutcomes == {Succeeds(TxtAdvicePadded), Fails(TxtQuota)}

NextSession ==
    \/ \E user_input \in SessionMessages, outcome \in SessionOutcomes :
           cycle.chats < MaxSessionChats /\ chat_cycle(user_input, outcome)
    \/ \E user_input \in Prompts, outcome \in SessionOutcomes :
           generate(user_input, outcome)

SpecSession == Init /\ [][NextSession]_vars

\* /chat requests handled by the threads of the server, interleaved
NextThreads ==
    \E t \in Threads :
        \/ \E user_input \in ThreadMessages : t_begin(t, user_input)
        \/ \E outcome \in SessionOutcomes : t_dispatch(t, outcome)
        \/ t_check(t)
        \/ t_read(t)
        \/ t_load(t)
        \/ t_store(t)
        \/ t_return(t)
        \/ t_reset(t)
        \/ t_advance(t)

SpecThreads == Init /\ [][NextThreads]_vars

\* /chat requests of two clients, in any order, one at a time
NextClients ==
    \E c \in Clients, user_input \in ClientMessages, outcome \in SessionOutcomes :
        client_chat(c, user_input, outcome)

SpecClients == Init /\ [][NextClients]_vars

\* /upload requests one after another
NextUpload == \E req \in Uploads, outcome \in Outcomes : upload(req, outcome)

SpecUpload == Init /\ [][NextUpload]_vars

(***************************************************************************)
(* Properties of the consultation dialog, under Spec.                      *)
(***************************************************************************)

Said(text) == [key |-> "response", value |-> text]

\* C1: in stage 0 a message whose lowercased form is not a valid term is
\* answered with the rejection prompt and changes nothing: the stage stays 0,
\* current_symptom, current_question_index and symptom_responses keep their
\* values and the collaborator is not used; this holds of every such step, so
\* of any number of rejections in a row.
RejectionChangesNothing ==
    [][(stage = 0 /\ lower(request') \notin VALID_MEDICAL_TERMS)
           => /\ response' = Said(MsgInvalidTerm)
              /\ stage' = 0
              /\ UNCHANGED <<current_symptom, current_question_index,
                             symptom_responses, model_calls>>]_vars

\* three rejections in a row, the last one of a message that is no term in any case
RejectedThrice ==
    /\ Len(outputs) >= 3
    /\ \A i \in 1..3 : outputs[i] = MsgInvalidTerm
    /\ request = InFevers
    /\ stage = 0

\* C2: in stage 0 a message whose lowercased form is a valid term is answered
\* with the duration prompt, moves the stage to 1 and becomes current_symptom
\* as it was typed; current_question_index and symptom_responses keep their
\* values and the collaborator is not used.
ValidSymptomAccepted ==
    [][(stage = 0 /\ lower(request') \in VALID_MEDICAL_TERMS)
           => /\ response' = Said(MsgDuration)
              /\ stage' = 1
              /\ current_symptom' = request'
              /\ UNCHANGED <<current_question_index, symptom_responses, model_calls>>]_vars

\* "Fever" was accepted in stage 0
CapitalisedSymptomAccepted ==
    /\ stage = 1
    /\ request = InFeverCapital
    /\ current_symptom = InFeverCapital
    /\ response = Said(MsgDuration)

\* C3: in stage 0 every message that equals a listed term up to letter case,
\* the term as it is listed included, is accepted: the stage moves to 1 and
\* the duration prompt is returned.
ListedTermsAccepted ==
    [][(stage = 0 /\ \E t \in VALID_MEDICAL_TERMS : lower(request') = lower(t))
           => (stage' = 1 /\ response' = Said(MsgDuration))]_vars

\* the nine responses of a full cycle that ends with "no"
CycleOutputs ==
    <<MsgDuration, MsgSeverity, AimcaPrefix \o Question1, AimcaPrefix \o Question2,
      AimcaPrefix \o Question3, AimcaPrefix \o Question4, AimcaPrefix \o Question5,
      MsgDecision, MsgThanks>>

\* C4: after exactly nine requests of which the first is a valid symptom and
\* the ninth is "no", the nine responses are the duration prompt, the severity
\* prompt, the five follow-up questions, the yes/no prompt and the closing
\* message, and the stage is 0, current_symptom is cleared and
\* current_question_index is 0.
FullCycleResets ==
    (/\ Len(outputs) = 9
     /\ lower(first_request) \in VALID_MEDICAL_TERMS
     /\ request = InNo)
        => /\ outputs = CycleOutputs
           /\ stage = 0
           /\ current_symptom = None
           /\ current_question_index = 0

\* C5: current_symptom is set only in the stages 1, 2 and 3; in stage 0 it is
\* cleared.
SymptomSetOnlyInCycle == current_symptom # None => stage \in {1, 2, 3}

\* C6: the stage is one of 0..3, current_question_index is in 0..5 and is 0 in
\* the stages 0, 1 and 3, and every request so far took a branch of
\* start_consultation and was answered with a prompt: none returned None and
\* none raised.
StageAndIndexInRange ==
    /\ stage \in 0..3
    /\ current_question_index \in 0..Len(get_additional_questions)
    /\ stage \in {0, 1, 3} => current_question_index = 0
    /\ \A i \in 1..Len(outputs) : outputs[i] # None /\ Len(outputs[i]) > 0
    /\ ~raised

\* the fifth follow-up question has been asked
LastFollowupAsked ==
    /\ stage = 2
    /\ current_question_index = 5
    /\ response = Said(AimcaPrefix \o Question5)

(***************************************************************************)
(* Properties of generate_ai_response, under SpecGenerate.                 *)
(***************************************************************************)

\* C7: of any two calls with the same prompt, at most one uses the
\* collaborator, and the later one was served from the cache.
GenerateTwiceCallsOnce ==
    \A i, j \in 1..Len(generate_log) :
        (i < j /\ generate_log[i].prompt = generate_log[j].prompt)
            => /\ generate_log[i].sent + generate_log[j].sent <= 1
               /\ generate_log[j].cached
               /\ generate_log[j].ret = symptom_responses[generate_log[j].prompt]

\* C7, amended: of any two calls with the same prompt of which the earlier
\* one did not fail (the collaborator succeeded or the prompt was cached), at
\* most one uses the collaborator, and the later one returns the cached
\* value, which is what the earlier one returned.
GenerateTwiceAfterSuccess ==
    \A i, j \in 1..Len(generate_log) :
        (/\ i < j
         /\ generate_log[i].prompt = generate_log[j].prompt
         /\ (generate_log[i].cached \/ generate_log[i].outcome.ok))
            => /\ generate_log[i].sent + generate_log[j].sent <= 1
               /\ generate_log[j].cached
               /\ generate_log[j].sent = 0
               /\ generate_log[j].ret = symptom_responses[generate_log[j].prompt]
               /\ generate_log[j].ret = generate_log[i].ret

\* a second call with the prompt of a successful first call, at a moment the
\* collaborator would fail
SecondCallServedFromCache ==
    /\ Len(generate_log) = 2
    /\ generate_log[1].prompt = generate_log[2].prompt
    /\ generate_log[1].outcome = Succeeds(TxtAdvicePadded)
    /\ generate_log[1].sent = 1
    /\ generate_log[2].outcome = Fails(TxtQuota)
    /\ generate_log[2].sent = 0
    /\ generate_log[2].ret = TxtAdvice

\* the latest direct call
LatestGenerate == generate_log[Len(generate_log)]

\* C8: no call raises; a call whose collaborator fails returns the error
\* string "Error: <message>" and leaves the cache as it was; the cache changes
\* only by a successful collaborator result, stripped, being stored under the
\* prompt of the call.
GenerateNeverRaises ==
    [][LET call == LatestGenerate'
       IN  /\ ~raised'
           /\ ~call.raised
           /\ (~call.cached /\ ~call.outcome.ok)
                  => /\ response'.value = GenErrorPrefix \o call.outcome.text
                     /\ symptom_responses' = symptom_responses
           /\ symptom_responses' # symptom_responses
                  => /\ call.outcome.ok
                     /\ call.sent = 1
                     /\ symptom_responses' =
                            Put(symptom_responses, call.prompt, strip(call.outcome.text))]_vars

\* a failed call after a successful one with another prompt: the error string
\* is returned and the cache holds the earlier result only
FailedGenerateReturnedError ==
    /\ Len(generate_log) = 2
    /\ generate_log[1].outcome.ok
    /\ ~LatestGenerate.outcome.ok
    /\ ~LatestGenerate.cached
    /\ response.value = GenErrorPrefix \o TxtQuota
    /\ DOMAIN symptom_responses = {generate_log[1].prompt}

(***************************************************************************)
(* Properties of the analysis pipeline, under SpecUpload.                  *)
(***************************************************************************)

\* the extractor fails: the file cannot be opened or a page cannot be read
ExtractorFails(pdf) ==
    pdf.open_error # None \/ \E i \in DOMAIN pdf.pages : pdf.pages[i].raises

\* the pages with extractable text
TextPages(pdf) ==
    {i \in DOMAIN pdf.pages :
        ~pdf.pages[i].raises /\ pdf.pages[i].text \notin {None, <<>>}}

\* the step is an /upload request that carries a file with a filename
Analyzes(req) == req.upload.has_file /\ req.upload.filename # <<>>

\* C9: when the document has no extractable text or the extractor fails, the
\* run returns an error string, does not use the collaborator and appends
\* nothing to the analysis log.
ExtractionErrorReturned ==
    [][(/\ Analyzes(request')
        /\ (ExtractorFails(request'.upload.pdf) \/ TextPages(request'.upload.pdf) = {}))
           => /\ response'.value # None
              /\ Contains(ErrorWord, response'.value)
              /\ model_calls' = model_calls
              /\ pathology_log' = pathology_log]_vars

\* C10: when text was extracted from the document, the run uses the
\* collaborator exactly once, with a prompt that holds the text of every page
\* and the five section headers, and returns exactly the text the
\* collaborator returned.
TextIsAnalyzedOnce ==
    [][(/\ Analyzes(request')
        /\ ~ExtractorFails(request'.upload.pdf)
        /\ TextPages(request'.upload.pdf) # {})
           => /\ Len(model_calls') = Len(model_calls) + 1
              /\ LET prompt == model_calls'[Len(model_calls')]
                     pdf == request'.upload.pdf
                 IN  /\ \A i \in TextPages(pdf) : Contains(pdf.pages[i].text, prompt)
                     /\ \A h \in {Section1, Section2, Section3, Section4, Section5} :
                            Contains(h, prompt)
              /\ request'.outcome.ok => response'.value = request'.outcome.text]_vars

\* C11: a run on a document from which text was extracted appends exactly one
\* record to the analysis log, the record holds the value the run returns,
\* and the records that were in the log stay as they were.
ExtractedRunLoggedOnce ==
    [][(/\ Analyzes(request')
        /\ ~ExtractorFails(request'.upload.pdf)
        /\ TextPages(request'.upload.pdf) # {})
           => /\ Len(pathology_log') = Len(pathology_log) + 1
              /\ SubSeq(pathology_log', 1, Len(pathology_log)) = pathology_log
              /\ pathology_log'[Len(pathology_log')].result = response'.value]_vars

\* C12: a request without a file part and a request whose file part has an
\* empty filename are each answered with an error object, the two messages
\* differ, a request that is analyzed is answered with a response object, and
\* the two rejected requests create no analyzer (so extract nothing), do not
\* use the collaborator and append nothing to the analysis log.
MissingUploadRejected ==
    [][/\ ~request'.upload.has_file
            => /\ response' = [key |-> "error", value |-> MsgNoFilePart]
               /\ UNCHANGED <<analyzer, pathology_log, model_calls>>
       /\ (request'.upload.has_file /\ request'.upload.filename = <<>>)
            => /\ response' = [key |-> "error", value |-> MsgNoSelectedFile]
               /\ UNCHANGED <<analyzer, pathology_log, model_calls>>
       /\ Analyzes(request') => response'.key = "response"
       /\ MsgNoFilePart # MsgNoSelectedFile]_vars

\* a file part with content and an empty filename was rejected, after a
\* request without a file part
EmptyFilenameRejected ==
    /\ clock = 2
    /\ request.upload.has_file
    /\ request.upload.filename = <<>>
    /\ TextPages(request.upload.pdf) # {}
    /\ response = [key |-> "error", value |-> MsgNoSelectedFile]
    /\ analyzer = None
    /\ pathology_log = <<>>
    /\ model_calls = <<>>

(***************************************************************************)
(* Properties of the dialog over several cycles, under SpecCycles.         *)
(***************************************************************************)

\* the number of further requests after which the stage is 0 again
CallsToSymptomStage ==
    CASE stage = 0 -> 0
      [] stage = 1 -> 8
      [] stage = 2 -> 7 - current_question_index
      [] stage = 3 -> 1

\* C13: in every state the stage is 0 again after a fixed number of further
\* requests, at most 9: outside stage 0 every request, whatever its message
\* and whatever the collaborator does, brings the session one request closer
\* to stage 0; and in stage 0 a message whose lowercased form is a valid term
\* is accepted and starts a cycle.
SessionReturnsToStart ==
    [][/\ stage \in 0..3
       /\ CallsToSymptomStage \in 0..9
       /\ stage # 0 => CallsToSymptomStage' = CallsToSymptomStage - 1
       /\ (stage = 0 /\ lower(request') \in VALID_MEDICAL_TERMS)
             => /\ stage' = 1
                /\ current_symptom' = request'
                /\ response' = Said(MsgDuration)]_vars

\* a second cycle was started after a cycle whose generation failed
RestartedAfterFailure ==
    /\ cycle.n = 2
    /\ stage = 1
    /\ Len(model_calls) = 1
    /\ symptom_responses = <<>>
    /\ response = Said(MsgDuration)

(***************************************************************************)
(* Properties of the cache over /chat requests and direct calls, under     *)
(* SpecSession.                                                            *)
(***************************************************************************)

\* the texts a successful collaborator call stores
SuccessfulResults == {strip(outcome.text) : outcome \in {o \in Outcomes : o.ok}}

\* C14: no step removes a key of symptom_responses or changes its value; a
\* step adds at most one key, and only one whose prompt it hands to the
\* collaborator in that step and whose value is the stripped text of a
\* successful collaborator result.
CacheOnlyGrows ==
    [][/\ \A p \in DOMAIN symptom_responses :
              /\ p \in DOMAIN symptom_responses'
              /\ symptom_responses'[p] = symptom_responses[p]
       /\ \A p \in (DOMAIN symptom_responses') \ (DOMAIN symptom_responses) :
              /\ model_calls' = Append(model_calls, p)
              /\ symptom_responses'[p] \in SuccessfulResults
              /\ DOMAIN symptom_responses' = (DOMAIN symptom_responses) \cup {p}
       /\ model_calls' # model_calls
              => model_calls'[Len(model_calls')] \notin DOMAIN symptom_responses]_vars

\* the cache holds two prompts: one stored by a "yes" at the end of a cycle
\* after a failed direct call, one stored by a direct call
CacheFilledBothWays ==
    /\ Cardinality(DOMAIN symptom_responses) = 2
    /\ stage = 0
    /\ cycle.advised = {InFever}
    /\ Len(generate_log) = 2
    /\ ~generate_log[1].outcome.ok
    /\ generate_log[2].sent = 1
    /\ Len(model_calls) = 3
\* the query structured_response builds for a symptom
QueryFor(symptom) == QueryHead \o symptom \o QueryTail

\* what a generation that is not served from the cache can return
GeneratedTexts ==
    SuccessfulResults \cup {GenErrorPrefix \o o.text : o \in {x \in Outcomes : ~x.ok}}

\* C15: in stage 3 a message that is "yes" in any letter case is answered
\* with the advice for the symptom accepted at the start of the cycle in
\* progress: the cached text of the query for that symptom, or else the
\* result of handing exactly that query to the collaborator; any other
\* message is answered with the closing message without a collaborator call;
\* in both cases the stage becomes 0.
DecisionAnswered ==
    [][stage = 3
          => /\ stage' = 0
             /\ IF lower(request') = Yes
                THEN IF QueryFor(cycle.symptom) \in DOMAIN symptom_responses
                     THEN /\ response' =
                                Said(AimcaPrefix \o symptom_responses[QueryFor(cycle.symptom)])
                          /\ model_calls' = model_calls
                     ELSE /\ model_calls' = Append(model_calls, QueryFor(cycle.symptom))
                          /\ response'.value \in {AimcaPrefix \o x : x \in GeneratedTexts}
                ELSE /\ response' = Said(MsgThanks)
                     /\ model_calls' = model_calls
                     /\ symptom_responses' = symptom_responses]_vars

\* "YES" at the end of a second cycle, for "Fever", after a first cycle that
\* brought advice for "fever": the query sent is the one for "Fever"
SecondCycleAdvised ==
    /\ cycle.n = 2
    /\ stage = 0
    /\ request = InYesUpper
    /\ cycle.symptom = InFeverCapital
    /\ cycle.advised = {InFever, InFeverCapital}
    /\ model_calls = <<QueryFor(InFever), QueryFor(InFeverCapital)>>
    /\ response = Said(AimcaPrefix \o TxtAdvice)
\* the responses of a cycle up to the yes/no prompt
CyclePrompts == SubSeq(CycleOutputs, 1, 8)

\* C16: in every cycle the k-th response is the k-th of the duration prompt,
\* the severity prompt, the five follow-up questions in list order and the
\* yes/no prompt, so each question is asked once, one per request, the first
\* of them in answer to the third request of the cycle (the one that carries
\* the severity answer); the yes/no prompt is returned by the request that
\* follows the fifth question and by no other, and that request resets
\* current_question_index to 0.
FollowupsInOrder ==
    [][/\ LET k == IF Len(cycle'.outputs) < 8 THEN Len(cycle'.outputs) ELSE 8
          IN  SubSeq(cycle'.outputs, 1, k) = SubSeq(CyclePrompts, 1, k)
       /\ Len(cycle'.outputs) <= 9
       /\ (stage # 0 /\ Len(cycle.outputs) = 2)
             => response' = Said(AimcaPrefix \o Question1)
       /\ (response' = Said(MsgDecision))
             <=> (stage # 0 /\ cycle.outputs[Len(cycle.outputs)] = AimcaPrefix \o Question5)
       /\ response' = Said(MsgDecision)
             => (current_question_index = 5 /\ current_question_index' = 0 /\ stage' = 3)]_vars

\* the yes/no prompt of a second cycle, after all five questions
SecondCycleQuestioned ==
    /\ cycle.n = 2
    /\ stage = 3
    /\ cycle.outputs = CyclePrompts
    /\ response = Said(MsgDecision)
    /\ current_question_index = 0
\* the state of the specification's machine that a state of the code stands for
StageOfCode ==
    CASE stage = 0 -> "AwaitingSymptom"
      [] stage = 1 -> "AwaitingDuration"
      [] stage = 2 /\ current_question_index = 0 -> "AwaitingSeverity"
      [] stage = 2 /\ current_question_index >= 1 -> "AwaitingFollowups"
      [] stage = 3 -> "AwaitingDecision"

RepeatedTermCostsOneCall ==
    [][(/\ stage = 3
        /\ lower(request') = Yes
        /\ \E s \in cycle.advised : lower(s) = lower(cycle.symptom))
           => /\ model_calls' = model_calls
              /\ \E s \in cycle.advised :
                     /\ lower(s) = lower(cycle.symptom)
                     /\ response' = Said(AimcaPrefix \o symptom_responses[QueryFor(s)])]_vars

\* C20, amended: a "yes" at the end of a cycle whose symptom is typed exactly
\* as a symptom for which an earlier "yes" brought a successful generation
\* costs no collaborator call and returns the advice cached then; a "yes" for
\* a symptom typed in any other way hands the query for that typing to the
\* collaborator.
RepeatedSymptomCostsOneCall ==
    [][(stage = 3 /\ lower(request') = Yes)
           => IF cycle.symptom \in cycle.advised
              THEN /\ model_calls' = model_calls
                   /\ symptom_responses' = symptom_responses
                   /\ response' =
                          Said(AimcaPrefix \o symptom_responses[QueryFor(cycle.symptom)])
              ELSE model_calls' = Append(model_calls, QueryFor(cycle.symptom))]_vars

\* two cycles for "fever" that both ended with "yes": one collaborator call
\* in all, the second "yes" answered from the cache
SecondAdviceFromCache ==
    /\ cycle.n = 2
    /\ stage = 0
    /\ lower(request) = Yes
    /\ cycle.symptom = InFever
    /\ cycle.advised = {InFever}
    /\ cycle.cache_hits = 1
    /\ model_calls = <<QueryFor(InFever)>>
    /\ response = Said(AimcaPrefix \o TxtAdvice)
(***************************************************************************)
(* Properties of concurrent requests, under SpecThreads.                   *)
(***************************************************************************)

\* C18: current_question_index leaves 0..5, or the question list is read out
\* of range, only after two requests were inside the stage-2 branch at the
\* same time; that such a state is reached is what IndexPastRange and
\* ListReadOutOfRange show.
RaceNeedsOverlap ==
    (current_question_index \notin 0..Len(get_additional_questions) \/ threads.out_of_range)
        => threads.overlapped

\* two requests passed the bound check at index 4 and both incremented:
\* current_question_index is 6
IndexPastRange ==
    /\ current_question_index = 6
    /\ stage = 2
    /\ threads.overlapped
    /\ \A t \in Threads : threads.run[t].pc = "idle"

\* a request passed the bound check and read the list after the other one
\* had stored index 5
ListReadOutOfRange ==
    /\ threads.out_of_range
    /\ raised
    /\ current_question_index = 5

(***************************************************************************)
(* Properties of two clients on the one session, under SpecClients.        *)
(***************************************************************************)

\* C19: conversations are not isolated.  Every request is answered from
\* the one session advanced on the messages of both clients in their order
\* of arrival; a message that arrives in stage 1 from the client that was
\* not asked the duration question is taken as its answer whatever it says
\* (the severity question is returned, the stage becomes 2 and the symptom
\* stays); and a client is answered as its own session would answer only
\* as long as the other client has sent nothing.
SessionSharedByClients ==
    [][clients' # clients =>
          LET c == clients'.sender
          IN  /\ response' = Said(spec_session'.prompt)
              /\ (stage = 1 /\ clients.sender = Other(c))
                     => /\ response' = Said(MsgSeverity)
                        /\ stage' = 2
                        /\ current_symptom' = current_symptom
              /\ clients'.sent[Other(c)] = 0
                     => response' = Said(clients'.alone[c].prompt)]_vars

\* A named a symptom, B sent one message and A answered the duration
\* question: A is asked the first follow-up question, where alone it would
\* be asked the severity question
NextPromptDependsOnOther ==
    /\ clients.sender = "A"
    /\ clients.sent = [c \in Clients |-> IF c = "A" THEN 2 ELSE 1]
    /\ response = Said(AimcaPrefix \o Question1)
    /\ clients.alone["A"].prompt = MsgSeverity
    /\ clients.alone["A"].stage = "AwaitingSeverity"
    /\ stage = 2

\* B's first message, an unlisted word, arrived after A was asked the
\* duration question: it is answered with the severity question, where B
\* alone would be told to enter a valid term
FirstMessageAnswersForOther ==
    /\ clients.sender = "B"
    /\ clients.sent = [c \in Clients |-> 1]
    /\ request = InFevers
    /\ response = Said(MsgSeverity)
    /\ clients.alone["B"].prompt = MsgInvalidTerm
    /\ current_symptom = InFever
    /\ stage = 2

=========================================================================
